---- MODULE Spec2Model ----
(***************************************************************************)
(* A model of importar's import pipeline driver, perform_import, and of    *)
(* the ImportOperation it drives (src/src/importar/__init__.py).           *)
(*                                                                         *)
(* One run of perform_import is a sequential process; pc is its position.  *)
(* Every call the driver makes into foreign code (a receiver of the        *)
(* import_started signal, a pull from the record source, a handler         *)
(* callback) is one step whose outcome, return or raise, is chosen         *)
(* nondeterministically.  trace is the history of those calls.             *)
(*                                                                         *)
(* Handlers are attached and detached by the receivers of import_started   *)
(* while the signal is sent; the handler list does not change during the   *)
(* delivery loop or a notification round.                                  *)
(***************************************************************************)
EXTENDS Naturals, Sequences, FiniteSets

\* ------------------------------------------------------------------ bounds

\* Longest record source considered.
MaxRecords == 2
\* Most receivers connected to the import_started signal.
MaxReceivers == 2
\* Most attach/detach calls one receiver makes while it handles the signal.
MaxOps == 2

\* ------------------------------------------------------------- value sets

\* ImportType = Enum('ImportType', 'FULL_SYNC PARTIAL_UPDATE')
ImportType == {"FULL_SYNC", "PARTIAL_UPDATE"}
\* Values a caller may pass as import_type: the enum members and a non-member.
ImportTypeArgs == ImportType \cup {"abc"}

\* Objects that are ImportOperationHandler instances.
Handlers == {"h1", "h2"}
\* An object that is not an ImportOperationHandler.
NotAHandler == "object"

\* ImportRecord instances a source may yield.
Records == {"r1", "r2"}
\* What one pull of the source may produce besides a record: a value that is
\* not an ImportRecord, or an exception.
NotARecord == "object"
SourceRaises == "boom"
Items == Records \cup {NotARecord, SourceRaises}

\* All sequences over S of length at most n.
SeqsUpTo(S, n) == UNION {[1..k -> S] : k \in 0..n}

\* Exceptions are identified by where they were raised: the kind of call and
\* the index of that call in trace.
NoExc == [kind |-> "none", n |-> 0]
Exc(kind, n) == [kind |-> kind, n |-> n]

VARIABLES
    pc,            \* position of perform_import
    import_type,   \* argument import_type
    records,       \* argument records: what each pull of the source produces
    nreceivers,    \* receivers connected to import_started
    handlers,      \* operation._handlers
    ridx,          \* send_robust: the receiver being called (1-based)
    ops,           \* attach/detach calls made by the running receiver
    responses,     \* send_robust's response list: NoExc or the exception
    pos,           \* records_iter: index of the next item to pull
    record,        \* local variable record
    hidx,          \* position of the running "for h in operation.handlers"
    errors,        \* _notify_handler_robust: the errors list
    err,           \* the exception the pending ImportOperationError wraps
    exc_type,      \* type of the exception perform_import raised ("-" if none)
    exc_cause,     \* __cause__ of the exception perform_import raised
    failRounds,    \* calls of _notify_import_failed so far
    trace          \* history: every call made into foreign code, in order

vars == <<pc, import_type, records, nreceivers, handlers, ridx, ops, responses,
          pos, record, hidx, errors, err, exc_type, exc_cause, failRounds, trace>>

\* One call into foreign code.  ev: "started" (a receiver), "pull" (the
\* source), "record"/"failed"/"finished" (a handler callback); h: the handler;
\* r: the record passed or the item pulled; raised: whether the call raised.
Event(ev, h, r, raised) == [ev |-> ev, h |-> h, r |-> r, raised |-> raised]

Terminated == pc \in {"returned", "raised"}

\* ------------------------------------------------------- ImportOperation

\* ImportOperation.attach_handler on a valid handler:
\* if not handler in self._handlers: self._handlers.append(handler)
attach_handler_nodedup(hs, h) == Append(hs, h)
attach_handler(hs, h) == IF \E i \in DOMAIN hs : hs[i] = h THEN hs ELSE Append(hs, h)

\* list.remove: removes the first occurrence.
RemoveFirst(hs, h) ==
    LET i == CHOOSE k \in DOMAIN hs : hs[k] = h /\ \A j \in 1..(k-1) : hs[j] # h
    IN [k \in 1..(Len(hs)-1) |-> IF k < i THEN hs[k] ELSE hs[k+1]]

\* ImportOperation.detach_handler.
detach_handler(hs, h) == IF \E i \in DOMAIN hs : hs[i] = h THEN RemoveFirst(hs, h) ELSE hs

\* _validate_import_handler.
validate_import_handler(h) == h \in Handlers

\* --------------------------------------------------------- perform_import

Init ==
    /\ pc = "validate"
    /\ import_type \in ImportTypeArgs
    /\ records \in SeqsUpTo(Items, MaxRecords)
    /\ nreceivers \in 0..MaxReceivers
    /\ handlers = <<>>
    /\ ridx = 1
    /\ ops = 0
    /\ responses = <<>>
    /\ pos = 1
    /\ record = "-"
    /\ hidx = 1
    /\ errors = <<>>
    /\ err = NoExc
    /\ exc_type = "-"
    /\ exc_cause = NoExc
    /\ failRounds = 0
    /\ trace = <<>>

\* isinstance(import_type, ImportType)
is_import_type_any(t) == TRUE
is_import_type(t) == t \in ImportType

\* if not isinstance(import_type, ImportType): raise ValueError
\* operation = ImportOperation(record_type, import_type)
Validate ==
    /\ pc = "validate"
    /\ IF is_import_type(import_type)
         THEN /\ pc' = "send"
              /\ UNCHANGED <<exc_type>>
         ELSE /\ pc' = "raised"
              /\ exc_type' = "ValueError"
    /\ UNCHANGED <<import_type, records, nreceivers, handlers, ridx, ops, responses,
                   pos, record, hidx, errors, err, exc_cause, failRounds, trace>>

\* import_started.send_robust(operation): the next receiver is called.
ReceiverCall ==
    /\ pc = "send"
    /\ ridx <= nreceivers
    /\ pc' = "receiver"
    /\ ops' = 0
    /\ trace' = Append(trace, Event("started", "-", "-", FALSE))
    /\ UNCHANGED <<import_type, records, nreceivers, handlers, ridx, responses,
                   pos, record, hidx, errors, err, exc_type, exc_cause, failRounds>>

\* The running receiver calls operation.attach_handler(h).  An object that is
\* not a handler is rejected by _validate_import_handler before the list is
\* touched.
AttachHandler(h) ==
    /\ pc = "receiver"
    /\ ops < MaxOps
    /\ ops' = ops + 1
    /\ handlers' = IF validate_import_handler(h) THEN attach_handler(handlers, h)
                   ELSE handlers
    /\ UNCHANGED <<pc, import_type, records, nreceivers, ridx, responses,
                   pos, record, hidx, errors, err, exc_type, exc_cause, failRounds, trace>>

\* The running receiver calls operation.detach_handler(h).
DetachHandler(h) ==
    /\ pc = "receiver"
    /\ ops < MaxOps
    /\ ops' = ops + 1
    /\ handlers' = detach_handler(handlers, h)
    /\ UNCHANGED <<pc, import_type, records, nreceivers, ridx, responses,
                   pos, record, hidx, errors, err, exc_type, exc_cause, failRounds, trace>>

\* The running receiver returns, or raises: send_robust catches the exception
\* and records it as the receiver's response, then goes on to the next one.
ReceiverEnd(raises) ==
    /\ pc = "receiver"
    /\ pc' = "send"
    /\ ridx' = ridx + 1
    /\ responses' = Append(responses, IF raises THEN Exc("receiver", Len(trace)) ELSE NoExc)
    /\ trace' = [trace EXCEPT ![Len(trace)].raised = raises]
    /\ UNCHANGED <<import_type, records, nreceivers, handlers, ops,
                   pos, record, hidx, errors, err, exc_type, exc_cause, failRounds>>

ReceiverReturn == ReceiverEnd(FALSE)
ReceiverRaise == ReceiverEnd(TRUE)

\* _first_error: the first response that is an exception, or NoExc.
first_error_last(resp) ==
    IF \E i \in DOMAIN resp : resp[i] # NoExc
      THEN resp[CHOOSE i \in DOMAIN resp : resp[i] # NoExc /\ \A j \in DOMAIN resp : j > i => resp[j] = NoExc]
      ELSE NoExc
first_error(resp) ==
    IF \E i \in DOMAIN resp : resp[i] # NoExc
      THEN resp[CHOOSE i \in DOMAIN resp : resp[i] # NoExc /\ \A j \in 1..(i-1) : resp[j] = NoExc]
      ELSE NoExc

\* Entering _notify_import_failed(operation) with `cause` pending.
EnterNotifyFailed(cause) ==
    /\ pc' = "notify_failed"
    /\ hidx' = 1
    /\ errors' = <<>>
    /\ err' = cause
    /\ failRounds' = failRounds + 1

\* err = _first_error(...); if err is not None: _notify_import_failed(operation)
SendDone ==
    /\ pc = "send"
    /\ ridx > nreceivers
    /\ IF first_error(responses) # NoExc
         THEN EnterNotifyFailed(first_error(responses))
         ELSE /\ pc' = "iter"
              /\ UNCHANGED <<hidx, errors, err, failRounds>>
    /\ UNCHANGED <<import_type, records, nreceivers, handlers, ridx, ops, responses,
                   pos, record, exc_type, exc_cause, trace>>

\* records_iter = iter(records): the iterator is obtained.
IterOK ==
    /\ pc = "iter"
    /\ pc' = "pull"
    /\ UNCHANGED <<import_type, records, nreceivers, handlers, ridx, ops, responses,
                   pos, record, hidx, errors, err, exc_type, exc_cause, failRounds, trace>>

\* records_iter = iter(records) raises (records is not iterable, or its
\* __iter__ raises): the call is outside every try block, so the exception
\* leaves perform_import as it is.
IterRaises ==
    /\ pc = "iter"
    /\ pc' = "raised"
    /\ exc_type' = "TypeError"
    /\ UNCHANGED <<import_type, records, nreceivers, handlers, ridx, ops, responses,
                   pos, record, hidx, errors, err, exc_cause, failRounds, trace>>

\* isinstance(record, ImportRecord)
is_import_record_any(item) == item # SourceRaises
is_import_record(item) == item \in Records

\* record = next(records_iter), and the isinstance check on it.
Pull ==
    /\ pc = "pull"
    /\ IF pos > Len(records)
         THEN \* StopIteration: break, then _notify_handler_robust(.., 'on_import_finished')
              /\ pc' = "notify_finished"
              /\ hidx' = 1
              /\ errors' = <<>>
              /\ trace' = Append(trace, Event("pull", "-", "StopIteration", FALSE))
              /\ UNCHANGED <<pos, record, err, failRounds>>
         ELSE /\ pos' = pos + 1
              /\ IF records[pos] # SourceRaises /\ is_import_record(records[pos])
                   THEN /\ pc' = "deliver"
                        /\ hidx' = 1
                        /\ record' = records[pos]
                        /\ trace' = Append(trace, Event("pull", "-", records[pos], FALSE))
                        /\ UNCHANGED <<errors, err, failRounds>>
                   ELSE /\ trace' = Append(trace, Event("pull", "-", records[pos], TRUE))
                        /\ EnterNotifyFailed(
                             Exc(IF records[pos] = SourceRaises THEN "source" ELSE "ValueError",
                                 Len(trace) + 1))
                        /\ UNCHANGED record
    /\ UNCHANGED <<import_type, records, nreceivers, handlers, ridx, ops, responses,
                   exc_type, exc_cause>>

\* Whether the try block around the delivery loop ends the delivery: it does
\* when the callback raised (except Exception as err: ...).
delivery_aborts_never(raised) == FALSE
delivery_aborts(raised) == raised

\* Where perform_import goes once the record was given to every handler: back
\* to the top of "while True".
after_delivery_finish == "notify_finished"
after_delivery == "pull"

\* The for loop over operation.handlers: the index of the handler called
\* after handler i.
next_handler_skips(i) == i + 2
next_handler(i) == i + 1

\* for h in operation.handlers: h.on_record_available(operation, record)
Deliver(raises) ==
    /\ pc = "deliver"
    /\ hidx <= Len(handlers)
    /\ trace' = Append(trace, Event("record", handlers[hidx], record, raises))
    /\ IF delivery_aborts(raises)
         THEN EnterNotifyFailed(Exc("handler", Len(trace) + 1))
         ELSE /\ hidx' = next_handler(hidx)
              /\ UNCHANGED <<pc, errors, err, failRounds>>
    /\ UNCHANGED <<import_type, records, nreceivers, handlers, ridx, ops, responses,
                   pos, record, exc_type, exc_cause>>

DeliverOK == Deliver(FALSE)
DeliverRaise == Deliver(TRUE)

\* The for loop over the handlers is over.
DeliverDone ==
    /\ pc = "deliver"
    /\ hidx > Len(handlers)
    /\ pc' = after_delivery
    /\ hidx' = 1
    /\ errors' = <<>>
    /\ UNCHANGED <<import_type, records, nreceivers, handlers, ridx, ops, responses,
                   pos, record, err, exc_type, exc_cause, failRounds, trace>>

\* _notify_handler_robust: the index of the handler called after handler i,
\* whether or not handler i raised (the exception is caught and collected).
robust_next_stops(i, raised) == IF raised THEN Len(handlers) + 1 ELSE i + 1
robust_next(i, raised) == i + 1

\* One iteration of _notify_handler_robust(operation, method).
NotifyStep(at, ev, raises) ==
    /\ pc = at
    /\ hidx <= Len(handlers)
    /\ trace' = Append(trace, Event(ev, handlers[hidx], "-", raises))
    /\ errors' = IF raises THEN Append(errors, Exc("handler", Len(trace) + 1)) ELSE errors
    /\ hidx' = robust_next(hidx, raises)
    /\ UNCHANGED <<pc, import_type, records, nreceivers, handlers, ridx, ops, responses,
                   pos, record, err, exc_type, exc_cause, failRounds>>

NotifyFailedOK == NotifyStep("notify_failed", "failed", FALSE)
NotifyFailedRaise == NotifyStep("notify_failed", "failed", TRUE)
NotifyFinishedOK == NotifyStep("notify_finished", "finished", FALSE)
NotifyFinishedRaise == NotifyStep("notify_finished", "finished", TRUE)

\* _notify_import_failed returned: raise ImportOperationError(...) from err
NotifyFailedDone ==
    /\ pc = "notify_failed"
    /\ hidx > Len(handlers)
    /\ pc' = "raised"
    /\ exc_type' = "ImportOperationError"
    /\ exc_cause' = err
    /\ UNCHANGED <<import_type, records, nreceivers, handlers, ridx, ops, responses,
                   pos, record, hidx, errors, err, failRounds, trace>>

\* What perform_import does with the errors of the finished round:
\* if(errors): raise ImportOperationError(...)   /   return operation
after_finished_returns(errs) == "returned"
after_finished(errs) == IF errs # <<>> THEN "raised" ELSE "returned"

\* errors = _notify_handler_robust(operation, 'on_import_finished') returned.
NotifyFinishedDone ==
    /\ pc = "notify_finished"
    /\ hidx > Len(handlers)
    /\ pc' = after_finished(errors)
    /\ exc_type' = IF after_finished(errors) = "raised" THEN "ImportOperationError" ELSE exc_type
    /\ UNCHANGED <<import_type, records, nreceivers, handlers, ridx, ops, responses,
                   pos, record, hidx, errors, err, exc_cause, failRounds, trace>>

\* ---------------------------------------------- inverted iteration
\* src/src/patronsdatasrc/invertediteration.py: IterationState and
\* InvertedIterationController, and a consumer generator bound to the
\* controller.  A call of transmit_value, fail or end is one step; what the
\* consumer does when it is driven (how often it pulls the feeder, and whether
\* it then suspends, returns or raises) is chosen nondeterministically.

\* Most pulls of the feeder a consumer makes in one driving step.
MaxPulls == 2
\* Most calls made on one controller.
MaxCalls == 3

\* Values transmitted, and the exception passed to fail().
Vals == {"a", "b"}
InjectedErr == "err"

\* What a call can raise (or "ok" when it returns).
SecondValue == "InvertedIterationError: attempted to access a second value without yielding"
NoAdvance == "InvertedIterationError: didn't advance its iterator"
UnexpectedStop == "InvertedIterationError: unexpectedly raised StopIteration"
FailedIterator == "InvertedIterationError: communicate with a failed iterator"
NextBeforeVal == "RuntimeError: __next__ called before next val was provided"
UnexpectedState == "RuntimeError: called in unexpected state"
GeneratorStop == "RuntimeError: generator raised StopIteration"
AssertionFailed == "AssertionError"
AttributeErr == "AttributeError: no attribute 'yield_count'"
OwnError == "own"
InvertedIterationErrors == {SecondValue, NoAdvance, UnexpectedStop, FailedIterator}

VARIABLES
    ctl,          \* the controller: iteration_state.state/.val, step_count,
                  \* yield_count, and whether the _feeder() generator and the
                  \* consumer generator can still run
    genstop,      \* the interpreter turns a StopIteration that escapes a
                  \* generator body into RuntimeError (PEP 479: Python >= 3.7)
    ncalls,       \* calls made on the controller so far
    last,         \* history: the last call, what the consumer did and got in it
    good,         \* history: every call before the last was a transmit_value
                  \* in which the consumer pulled once and suspended
    sent,         \* history: the values passed to transmit_value, in order
    got,          \* history: the values the consumer received, in order
    died,         \* history: the consumer has raised an exception
    died_before,  \* history: it had before the last call
    delivered,    \* history: the consumer has taken an end or an error
    construction  \* history: the kind of bind_consumer given to __init__,
                  \* and what __init__ raised ("ok" if nothing)

cvars == <<ctl, genstop, ncalls, last, good, sent, got, died, died_before, delivered,
           construction>>

\* src/src/importar/__init__.py: a OneOffImportOperationHandler, or the
\* GeneratorImportOperationHandler that owns the controller above.
VARIABLES
    error_raised, \* GeneratorImportOperationHandler.error_raised
    acall         \* history: the last handler method called, its operation
                  \* argument and what it raised ("ok" if nothing); n counts
                  \* the calls

avars == <<error_raised, acall>>

\* The example consumer of the integration test and the map it maintains.
VARIABLES
    db,             \* the downstream map (a dict)
    db_before,      \* history: db when the import began
    op_import_type, \* import_operation.import_type
    to_update,      \* record_handler's local dict
    to_remove       \* record_handler's local set

evars == <<db, db_before, op_import_type, to_update, to_remove>>

\* Two runs of perform_import under way at once.
VARIABLES
    op_handlers,    \* ImportOperation._handlers of each run's operation
    op_pc,          \* where each run is
    ctls,           \* the controller of each GeneratorImportOperationHandler
    flags,          \* error_raised of each GeneratorImportOperationHandler
    tstep           \* history: the last step, the run that took it, the
                    \* handler and record of the call it made and what the
                    \* call raised; n counts the steps

tvars == <<op_handlers, op_pc, ctls, flags, tstep>>

\* IterationState.__init__ and InvertedIterationController.__init__ with a
\* generator function as consumer: its body does not run before the first
\* step (consumer "unstarted"; then "alive" while suspended, then "finished").
NewController_started ==
    [state |-> "AWAITING_VAL", val |-> "None", step_count |-> 0, yield_count |-> 0,
     feeder |-> "alive", consumer |-> "alive"]
NewController ==
    [state |-> "AWAITING_VAL", val |-> "None", step_count |-> 0, yield_count |-> 0,
     feeder |-> "alive", consumer |-> "unstarted"]

\* IterationState.__next__: what it gives (kind "val", "exc" or "stop") and
\* the state it leaves.
iteration_state_next_keeps(c) ==
    CASE c.state = "AWAITING_VAL" -> [c |-> c, kind |-> "exc", x |-> NextBeforeVal]
      [] c.state = "HAS_VAL" -> [c |-> c, kind |-> "val", x |-> c.val]
      [] c.state = "AT_ERR" -> [c |-> c, kind |-> "exc", x |-> c.val]
      [] OTHER -> [c |-> c, kind |-> "stop", x |-> "-"]
iteration_state_next_holds(c) ==
    CASE c.state = "AWAITING_VAL" -> [c |-> c, kind |-> "exc", x |-> NextBeforeVal]
      [] c.state = "HAS_VAL" ->
           [c |-> [c EXCEPT !.state = "AWAITING_VAL"], kind |-> "val", x |-> c.val]
      [] c.state = "AT_ERR" ->
           [c |-> [c EXCEPT !.state = "AT_END"], kind |-> "exc", x |-> c.val]
      [] OTHER -> [c |-> c, kind |-> "stop", x |-> "-"]
iteration_state_next(c) ==
    CASE c.state = "AWAITING_VAL" -> [c |-> c, kind |-> "exc", x |-> NextBeforeVal]
      [] c.state = "HAS_VAL" ->
           [c |-> [c EXCEPT !.val = "None", !.state = "AWAITING_VAL"], kind |-> "val", x |-> c.val]
      [] c.state = "AT_ERR" ->
           [c |-> [c EXCEPT !.val = "None", !.state = "AT_END"], kind |-> "exc", x |-> c.val]
      [] OTHER -> [c |-> c, kind |-> "stop", x |-> "-"]

\* register_next_val, register_error, register_end: the controller after the
\* call, and "ok" or the exception raised.
register_next_val_unchecked(c, v) ==
    [c |-> [c EXCEPT !.val = v, !.state = "HAS_VAL"], out |-> "ok"]
register_next_val(c, v) ==
    IF c.state # "AWAITING_VAL" THEN [c |-> c, out |-> UnexpectedState]
    ELSE [c |-> [c EXCEPT !.val = v, !.state = "HAS_VAL"], out |-> "ok"]

register_error_as_value(c, e) ==
    IF c.state # "AWAITING_VAL" THEN [c |-> c, out |-> UnexpectedState]
    ELSE [c |-> [c EXCEPT !.val = e, !.state = "HAS_VAL"], out |-> "ok"]
register_error(c, e) ==
    IF c.state # "AWAITING_VAL" THEN [c |-> c, out |-> UnexpectedState]
    ELSE [c |-> [c EXCEPT !.val = e, !.state = "AT_ERR"], out |-> "ok"]

register_end_unchecked(c) ==
    [c |-> [c EXCEPT !.state = "AT_END"], out |-> "ok"]
register_end(c) ==
    IF c.state # "AWAITING_VAL" THEN [c |-> c, out |-> UnexpectedState]
    ELSE [c |-> [c EXCEPT !.state = "AT_END"], out |-> "ok"]

\* IterationState.is_at_end
is_at_end_always(c) == TRUE
is_at_end(c) == c.state = "AT_END"

\* InvertedIterationController.is_active
is_active(c) == ~is_at_end(c)

\* _validate_in_sync: "ok" or the InvertedIterationError raised.
validate_in_sync_behind_only(c) ==
    IF c.yield_count < c.step_count THEN NoAdvance ELSE "ok"
validate_in_sync_ahead_only(c) ==
    IF c.yield_count > c.step_count THEN SecondValue ELSE "ok"
validate_in_sync(c) ==
    IF c.yield_count > c.step_count THEN SecondValue
    ELSE IF c.yield_count < c.step_count THEN NoAdvance
    ELSE "ok"

\* next(feeder), one pull by the consumer of the _feeder() generator: what the
\* consumer gets, kind "val" (a value), "exc" (an exception raised out of the
\* feeder) or "end" (the feeder is over), and the controller afterwards.  An
\* exception that leaves the generator's body ends the generator.  At AT_END
\* IterationState.__next__ raises StopIteration inside the generator body:
\* the generator just ends, or, under PEP 479, RuntimeError is raised.
feeder_next(c, gs) ==
    IF c.feeder = "dead" THEN [c |-> c, kind |-> "end", x |-> "-"]
    ELSE LET c1 == [c EXCEPT !.yield_count = @ + 1]
             n == iteration_state_next(c1)
             over == [n.c EXCEPT !.feeder = "dead"]
         IN IF validate_in_sync(c1) # "ok"
              THEN [c |-> [c1 EXCEPT !.feeder = "dead"], kind |-> "exc", x |-> validate_in_sync(c1)]
            ELSE IF n.kind = "val" THEN [c |-> n.c, kind |-> "val", x |-> n.x]
            ELSE IF n.kind = "exc" THEN [c |-> over, kind |-> "exc", x |-> n.x]
            ELSE IF gs THEN [c |-> over, kind |-> "exc", x |-> GeneratorStop]
            ELSE [c |-> over, kind |-> "end", x |-> "-"]

\* n pulls in a row: the controller afterwards and what the consumer received.
RECURSIVE Pulls(_, _, _)
Pulls(c, n, gs) ==
    IF n = 0 THEN [c |-> c, received |-> <<>>]
    ELSE LET p == Pulls(c, n - 1, gs)
             f == feeder_next(p.c, gs)
         IN [c |-> f.c, received |-> Append(p.received, [kind |-> f.kind, x |-> f.x])]

\* What a consumer does in one driving step: it pulls the feeder `pulls`
\* times, then suspends (yield), returns, raises an exception of its own, or
\* lets the last exception it got from the feeder propagate.
Endings == {"suspend", "return", "raise_own", "propagate"}
Scripts == [pulls : 0..MaxPulls, ending : Endings]

\* The last exception in what the consumer received ("-" if none).
LastExc(received) ==
    LET E == {i \in DOMAIN received : received[i].kind = "exc"}
    IN IF E = {} THEN "-" ELSE received[CHOOSE i \in E : \A j \in E : j <= i].x

\* _step: one driving step.  The result: the controller afterwards, what the
\* call raises ("ok" if nothing), whether the consumer's code ran, and what it
\* received from the feeder.
step(c, script, gs) ==
    LET c1 == [c EXCEPT !.step_count = @ + 1]
        p == Pulls(c1, script.pulls, gs)
        fin == [p.c EXCEPT !.consumer = "finished"]
        e == IF script.ending = "raise_own" THEN OwnError ELSE LastExc(p.received)
    IN IF c.yield_count # c.step_count
         THEN \* assert self.yield_count == self.step_count
              [c |-> c, out |-> AssertionFailed, invoked |-> FALSE, received |-> <<>>]
       ELSE IF c.consumer = "finished"
         THEN \* next() of a generator that is over raises StopIteration
              [c |-> c1, invoked |-> FALSE, received |-> <<>>,
               out |-> IF ~is_at_end(c1) THEN UnexpectedStop ELSE validate_in_sync(c1)]
       ELSE IF script.ending = "suspend"
         THEN [c |-> [p.c EXCEPT !.consumer = "alive"], invoked |-> TRUE,
               received |-> p.received, out |-> validate_in_sync(p.c)]
       ELSE IF script.ending = "return"
         THEN \* except StopIteration
              [c |-> fin, invoked |-> TRUE, received |-> p.received,
               out |-> IF ~is_at_end(fin) THEN UnexpectedStop ELSE validate_in_sync(fin)]
       ELSE \* except InvertedIterationError: raise / except Exception
              [c |-> fin, invoked |-> TRUE, received |-> p.received,
               out |-> IF e \in InvertedIterationErrors THEN e
                       ELSE IF validate_in_sync(fin) # "ok" THEN validate_in_sync(fin)
                       ELSE e]

\* A result of a call that raised before _step.
Refused(r) == [c |-> r.c, out |-> r.out, invoked |-> FALSE, received |-> <<>>]

\* transmit_value, fail, end.
transmit_value(c, v, script, gs) ==
    IF register_next_val(c, v).out # "ok" THEN Refused(register_next_val(c, v))
    ELSE step(register_next_val(c, v).c, script, gs)

fail(c, e, script, gs) ==
    IF register_error(c, e).out # "ok" THEN Refused(register_error(c, e))
    ELSE step(register_error(c, e).c, script, gs)

end(c, script, gs) ==
    IF register_end(c).out # "ok" THEN Refused(register_end(c))
    ELSE step(register_end(c).c, script, gs)

\* A script the consumer can follow: it can only let an exception propagate
\* that it got.
CanFollow(r, script) == script.ending = "propagate" => LastExc(r.received) # "-"

NoCall == [op |-> "none", arg |-> "-", out |-> "-", invoked |-> FALSE,
           pulls |-> 0, ending |-> "-", received |-> <<>>]

\* The values among what the consumer received.
ValuesIn(received) ==
    LET s == SelectSeq(received, LAMBDA x : x.kind = "val")
    IN [i \in DOMAIN s |-> s[i].x]

\* The kinds of bind_consumer: a generator function, whose body does not run
\* when it is called, and a plain function that pulls the feeder while it is
\* called ("eager").
Binders == {"generator", "eager"}

\* The controller when __init__ calls bind_consumer (line 112): step_count and
\* yield_count are assigned only after it (lines 113-114).
Unset == "unset"
AtBind == [NewController EXCEPT !.step_count = Unset, !.yield_count = Unset]

\* A pull of the feeder made inside bind_consumer: the first statement of
\* _feeder reads self.yield_count.
feeder_next_at_bind(c, gs) ==
    IF c.yield_count = Unset
      THEN [c |-> [c EXCEPT !.feeder = "dead"], kind |-> "exc", x |-> AttributeErr]
    ELSE feeder_next(c, gs)

\* __init__: the controller it leaves and what it raises ("ok" if nothing).
\* An eager bind_consumer loops over the feeder and does not catch what a pull
\* raises.
construct(binder, gs) ==
    LET f == feeder_next_at_bind(AtBind, gs)
    IN IF binder = "generator" THEN [c |-> NewController, out |-> "ok"]
       ELSE IF f.kind = "exc" THEN [c |-> f.c, out |-> f.x]
       ELSE [c |-> [f.c EXCEPT !.step_count = 0, !.yield_count = 0], out |-> "ok"]

\* The state after InvertedIterationController(bind_consumer).
Constructed(binder) ==
    /\ ctl = construct(binder, genstop).c
    /\ construction = [binder |-> binder, out |-> construct(binder, genstop).out]
    /\ ncalls = 0
    /\ last = NoCall
    /\ good = TRUE
    /\ sent = <<>>
    /\ got = <<>>
    /\ died = FALSE
    /\ died_before = FALSE
    /\ delivered = FALSE

\* No controller call is under way (the state of these variables while
\* perform_import alone is observed).
CtrlInit ==
    /\ ctl = NewController
    /\ construction = [binder |-> "generator", out |-> "ok"]
    /\ ncalls = 0
    /\ last = NoCall
    /\ good = TRUE
    /\ sent = <<>>
    /\ got = <<>>
    /\ died = FALSE
    /\ died_before = FALSE
    /\ delivered = FALSE

\* The call `op` with argument `arg` gave result r; `script` is what the
\* consumer does if the call drives it.
Called(op, arg, script, r) ==
    /\ construction.out = "ok"
    /\ ncalls < MaxCalls
    /\ CanFollow(r, script)
    /\ ncalls' = ncalls + 1
    /\ ctl' = r.c
    /\ last' = [op |-> op, arg |-> arg, out |-> r.out, invoked |-> r.invoked,
                pulls |-> script.pulls, ending |-> script.ending,
                received |-> r.received]
    /\ good' = (good /\ (last.op = "none" \/
                         (last.op = "transmit_value" /\ last.pulls = 1 /\ last.ending = "suspend")))
    /\ sent' = IF op = "transmit_value" THEN Append(sent, arg) ELSE sent
    /\ got' = got \o ValuesIn(r.received)
    /\ died_before' = died
    /\ died' = (died \/ (r.invoked /\ script.ending \in {"raise_own", "propagate"}))
    /\ delivered' = (delivered \/ (op \in {"fail", "end"} /\ is_at_end(r.c) /\ r.invoked
                                   /\ script.pulls >= 1))
    /\ UNCHANGED <<genstop, construction>>

TransmitValue(v, script) ==
    Called("transmit_value", v, script, transmit_value(ctl, v, script, genstop))

Fail(script) ==
    Called("fail", InjectedErr, script, fail(ctl, InjectedErr, script, genstop))

End(script) ==
    Called("end", "-", script, end(ctl, script, genstop))

\* ------------------------------------------------ IterationState alone
\* Calls made directly on an IterationState (the iteration_state part of
\* ctl; the controller's counters and generators are not involved).

\* Most calls made on one IterationState.
MaxStateCalls == 4

\* The call `op` with argument `arg` left the iteration state of c2, raised
\* `out` ("ok" if it returned) and gave its caller `received`.
StateCalled(op, arg, c2, out, received) ==
    /\ ncalls < MaxStateCalls
    /\ ncalls' = ncalls + 1
    /\ ctl' = c2
    /\ last' = [op |-> op, arg |-> arg, out |-> out, invoked |-> FALSE,
                pulls |-> 0, ending |-> "-", received |-> received]
    /\ sent' = IF op = "register_next_val" /\ out = "ok" THEN Append(sent, arg) ELSE sent
    /\ got' = got \o ValuesIn(received)
    /\ delivered' = (delivered \/ received = <<[kind |-> "exc", x |-> InjectedErr]>>)
    /\ UNCHANGED <<genstop, good, died, died_before, construction>>

RegisterNextVal(v) ==
    StateCalled("register_next_val", v, register_next_val(ctl, v).c,
                register_next_val(ctl, v).out, <<>>)

RegisterError ==
    StateCalled("register_error", InjectedErr, register_error(ctl, InjectedErr).c,
                register_error(ctl, InjectedErr).out, <<>>)

RegisterEnd ==
    StateCalled("register_end", "-", register_end(ctl).c, register_end(ctl).out, <<>>)

\* next(iteration_state): it returns a value (out "ok"), or raises what
\* __next__ raises (StopIteration included).
TakeNext ==
    LET n == iteration_state_next(ctl)
    IN StateCalled("__next__", "-", n.c,
                   IF n.kind = "val" THEN "ok" ELSE IF n.kind = "exc" THEN n.x ELSE "StopIteration",
                   <<[kind |-> n.kind, x |-> n.x]>>)

StateNext ==
    \/ \E v \in Vals : RegisterNextVal(v) /\ UNCHANGED <<vars, avars, evars, tvars>>
    \/ RegisterError /\ UNCHANGED <<vars, avars, evars, tvars>>
    \/ RegisterEnd /\ UNCHANGED <<vars, avars, evars, tvars>>
    \/ TakeNext /\ UNCHANGED <<vars, avars, evars, tvars>>

\* ------------------------------------------------- one-off handlers
\* src/src/importar/__init__.py: OneOffImportOperationHandler and
\* GeneratorImportOperationHandler.  The handler was constructed with the
\* operation "own"; "other" is any other ImportOperation.  The generator
\* handler's consumer is partial(generator, operation), a generator function.

\* Most calls made on one handler.
MaxAdapterCalls == 3

Operations == {"own", "other"}
HandlerKinds == {"oneoff", "generator"}

ValueErr == "ValueError: received an import event from an operation other than our own"
\* ImportOperationError('handler got on_import_failed()'), line 260
AdapterErr == "ImportOperationError: handler got on_import_failed()"

NoAdapterCall == [n |-> 0, kind |-> "-", op |-> "none", operation |-> "-", out |-> "-"]

\* GeneratorImportOperationHandler.__init__: error_raised = False.
AdapterInit ==
    /\ error_raised = FALSE
    /\ acall = NoAdapterCall

\* _validate_operation_is_ours: "ok" or the ValueError raised.
validate_operation_is_ours_any(operation) == "ok"
validate_operation_is_ours(operation) ==
    IF operation # "own" THEN ValueErr ELSE "ok"

\* on_import_failed returns at once when the flag is set (lines 257-258).
skips_failure_never(flag) == FALSE
skips_failure_always(flag) == TRUE
skips_failure(flag) == flag

\* The handler method `op` of a handler of `kind`, called with `operation`,
\* raised `out`.
HandlerCalled(kind, op, operation, out) ==
    acall' = [n |-> acall.n + 1, kind |-> kind, op |-> op, operation |-> operation,
              out |-> out]

\* A method of a plain OneOffImportOperationHandler: validation only.
OneOffCall(op, operation) ==
    /\ acall.n < MaxAdapterCalls
    /\ HandlerCalled("oneoff", op, operation, validate_operation_is_ours(operation))
    /\ UNCHANGED <<cvars, error_raised>>

\* GeneratorImportOperationHandler.on_record_available
OnRecordAvailable(operation, v) ==
    /\ acall.n < MaxAdapterCalls
    /\ IF validate_operation_is_ours(operation) # "ok"
         THEN /\ HandlerCalled("generator", "on_record_available", operation,
                               validate_operation_is_ours(operation))
              /\ UNCHANGED <<cvars, error_raised>>
       ELSE IF error_raised
         THEN \* assert not self.error_raised
              /\ HandlerCalled("generator", "on_record_available", operation, AssertionFailed)
              /\ UNCHANGED <<cvars, error_raised>>
       ELSE \E script \in Scripts :
              LET r == transmit_value(ctl, v, script, genstop)
              IN /\ Called("transmit_value", v, script, r)
                 /\ error_raised' = (r.out # "ok")
                 /\ HandlerCalled("generator", "on_record_available", operation, r.out)

\* GeneratorImportOperationHandler.on_import_failed
OnImportFailed(operation) ==
    /\ acall.n < MaxAdapterCalls
    /\ IF validate_operation_is_ours(operation) # "ok"
         THEN /\ HandlerCalled("generator", "on_import_failed", operation,
                               validate_operation_is_ours(operation))
              /\ UNCHANGED <<cvars, error_raised>>
       ELSE IF skips_failure(error_raised)
         THEN /\ HandlerCalled("generator", "on_import_failed", operation, "ok")
              /\ UNCHANGED <<cvars, error_raised>>
       ELSE \E script \in Scripts :
              LET r == fail(ctl, AdapterErr, script, genstop)
              IN /\ Called("fail", AdapterErr, script, r)
                 /\ HandlerCalled("generator", "on_import_failed", operation, r.out)
                 /\ UNCHANGED error_raised

\* GeneratorImportOperationHandler.on_import_finished
OnImportFinished(operation) ==
    /\ acall.n < MaxAdapterCalls
    /\ IF validate_operation_is_ours(operation) # "ok"
         THEN /\ HandlerCalled("generator", "on_import_finished", operation,
                               validate_operation_is_ours(operation))
              /\ UNCHANGED <<cvars, error_raised>>
       ELSE IF error_raised
         THEN \* assert not self.error_raised
              /\ HandlerCalled("generator", "on_import_finished", operation, AssertionFailed)
              /\ UNCHANGED <<cvars, error_raised>>
       ELSE \E script \in Scripts :
              LET r == end(ctl, script, genstop)
              IN /\ Called("end", "-", script, r)
                 /\ error_raised' = (r.out # "ok")
                 /\ HandlerCalled("generator", "on_import_finished", operation, r.out)

HandlerMethods == {"on_record_available", "on_import_failed", "on_import_finished"}

AdapterNext ==
    \/ \E op \in HandlerMethods, operation \in Operations :
          OneOffCall(op, operation) /\ UNCHANGED <<vars, evars, tvars>>
    \/ \E operation \in Operations, v \in Vals :
          OnRecordAvailable(operation, v) /\ UNCHANGED <<vars, evars, tvars>>
    \/ \E operation \in Operations : OnImportFailed(operation) /\ UNCHANGED <<vars, evars, tvars>>
    \/ \E operation \in Operations : OnImportFinished(operation) /\ UNCHANGED <<vars, evars, tvars>>

\* The next-state relation of the controller; perform_import's variables stay.
CtrlNext ==
    \/ \E v \in Vals, script \in Scripts : TransmitValue(v, script) /\ UNCHANGED <<vars, avars, evars, tvars>>
    \/ \E script \in Scripts : Fail(script) /\ UNCHANGED <<vars, avars, evars, tvars>>
    \/ \E script \in Scripts : End(script) /\ UNCHANGED <<vars, avars, evars, tvars>>

\* The next-state relation of perform_import; the controller's variables stay.
Next ==
    \/ Validate /\ UNCHANGED <<cvars, avars, evars, tvars>>
    \/ ReceiverCall /\ UNCHANGED <<cvars, avars, evars, tvars>>
    \/ \E h \in Handlers \cup {NotAHandler} : AttachHandler(h) /\ UNCHANGED <<cvars, avars, evars, tvars>>
    \/ \E h \in Handlers : DetachHandler(h) /\ UNCHANGED <<cvars, avars, evars, tvars>>
    \/ ReceiverReturn /\ UNCHANGED <<cvars, avars, evars, tvars>>
    \/ ReceiverRaise /\ UNCHANGED <<cvars, avars, evars, tvars>>
    \/ SendDone /\ UNCHANGED <<cvars, avars, evars, tvars>>
    \/ IterOK /\ UNCHANGED <<cvars, avars, evars, tvars>>
    \/ IterRaises /\ UNCHANGED <<cvars, avars, evars, tvars>>
    \/ Pull /\ UNCHANGED <<cvars, avars, evars, tvars>>
    \/ DeliverOK /\ UNCHANGED <<cvars, avars, evars, tvars>>
    \/ DeliverRaise /\ UNCHANGED <<cvars, avars, evars, tvars>>
    \/ DeliverDone /\ UNCHANGED <<cvars, avars, evars, tvars>>
    \/ NotifyFailedOK /\ UNCHANGED <<cvars, avars, evars, tvars>>
    \/ NotifyFailedRaise /\ UNCHANGED <<cvars, avars, evars, tvars>>
    \/ NotifyFailedDone /\ UNCHANGED <<cvars, avars, evars, tvars>>
    \/ NotifyFinishedOK /\ UNCHANGED <<cvars, avars, evars, tvars>>
    \/ NotifyFinishedRaise /\ UNCHANGED <<cvars, avars, evars, tvars>>
    \/ NotifyFinishedDone /\ UNCHANGED <<cvars, avars, evars, tvars>>

\* ------------------------------------- perform_import with an adapter

\* The handler a receiver builds with GeneratorImportOperationHandler(
\* import_op, record_handler) and attaches; every other handler is a plain one.
GenHandler == "h1"

\* h.on_record_available(operation, record) on a plain handler.
PlainDeliver(raises) ==
    /\ pc = "deliver"
    /\ hidx <= Len(handlers)
    /\ handlers[hidx] # GenHandler
    /\ Deliver(raises)
    /\ UNCHANGED <<cvars, avars, evars, tvars>>

\* h.on_record_available(operation, record) on the adapter: what the call
\* raises is what the handler loop sees.
AdapterDeliver ==
    /\ pc = "deliver"
    /\ hidx <= Len(handlers)
    /\ handlers[hidx] = GenHandler
    /\ OnRecordAvailable("own", record)
    /\ Deliver(acall'.out # "ok")
    /\ UNCHANGED <<evars, tvars>>

\* getattr(h, method)(operation) on a plain handler, in _notify_handler_robust.
PlainNotify(at, ev, raises) ==
    /\ pc = at
    /\ hidx <= Len(handlers)
    /\ handlers[hidx] # GenHandler
    /\ NotifyStep(at, ev, raises)
    /\ UNCHANGED <<cvars, avars, evars, tvars>>

\* on_import_failed(operation) on the adapter, in _notify_handler_robust.
AdapterNotifyFailed ==
    /\ pc = "notify_failed"
    /\ hidx <= Len(handlers)
    /\ handlers[hidx] = GenHandler
    /\ OnImportFailed("own")
    /\ NotifyStep("notify_failed", "failed", acall'.out # "ok")
    /\ UNCHANGED <<evars, tvars>>

\* on_import_finished(operation) on the adapter, in _notify_handler_robust.
AdapterNotifyFinished ==
    /\ pc = "notify_finished"
    /\ hidx <= Len(handlers)
    /\ handlers[hidx] = GenHandler
    /\ OnImportFinished("own")
    /\ NotifyStep("notify_finished", "finished", acall'.out # "ok")
    /\ UNCHANGED <<evars, tvars>>

\* The next-state relation of perform_import when one of the handlers is a
\* GeneratorImportOperationHandler driving a consumer.
AdaptedNext ==
    \/ Validate /\ UNCHANGED <<cvars, avars, evars, tvars>>
    \/ ReceiverCall /\ UNCHANGED <<cvars, avars, evars, tvars>>
    \/ \E h \in Handlers \cup {NotAHandler} : AttachHandler(h) /\ UNCHANGED <<cvars, avars, evars, tvars>>
    \/ \E h \in Handlers : DetachHandler(h) /\ UNCHANGED <<cvars, avars, evars, tvars>>
    \/ ReceiverReturn /\ UNCHANGED <<cvars, avars, evars, tvars>>
    \/ ReceiverRaise /\ UNCHANGED <<cvars, avars, evars, tvars>>
    \/ SendDone /\ UNCHANGED <<cvars, avars, evars, tvars>>
    \/ IterOK /\ UNCHANGED <<cvars, avars, evars, tvars>>
    \/ IterRaises /\ UNCHANGED <<cvars, avars, evars, tvars>>
    \/ Pull /\ UNCHANGED <<cvars, avars, evars, tvars>>
    \/ PlainDeliver(FALSE)
    \/ PlainDeliver(TRUE)
    \/ AdapterDeliver
    \/ DeliverDone /\ UNCHANGED <<cvars, avars, evars, tvars>>
    \/ PlainNotify("notify_failed", "failed", FALSE)
    \/ PlainNotify("notify_failed", "failed", TRUE)
    \/ AdapterNotifyFailed
    \/ NotifyFailedDone /\ UNCHANGED <<cvars, avars, evars, tvars>>
    \/ PlainNotify("notify_finished", "finished", FALSE)
    \/ PlainNotify("notify_finished", "finished", TRUE)
    \/ AdapterNotifyFinished
    \/ NotifyFinishedDone /\ UNCHANGED <<cvars, avars, evars, tvars>>

\* ------------------------------------------------- the example consumer

\* ID('f', key) values and the data of the records of the example.
Keys == {"k1", "k2"}
Data == {"x", "y"}
\* The data of a delete-record.
None == "None"

\* ImportRecord([ID('f', key)], data)
ExampleRecords == [key : Keys, data : Data \cup {None}]

\* ImportRecord.is_deleted: self.data is None
is_deleted(r) == r.data = None

\* get_f_id: the value of the record's ID of type 'f'.
get_f_id(r) == r.key

\* dicts from keys to data.
Maps == UNION {[S -> Data] : S \in SUBSET Keys}
EmptyMap == [k \in {} |-> None]

\* d.update(u) and d with the keys of S deleted.
dict_update_keeps(d, u) ==
    [k \in DOMAIN d \cup DOMAIN u |-> IF k \in DOMAIN d THEN d[k] ELSE u[k]]
dict_update(d, u) ==
    [k \in DOMAIN d \cup DOMAIN u |-> IF k \in DOMAIN u THEN u[k] ELSE d[k]]
dict_without(d, S) == [k \in DOMAIN d \ S |-> d[k]]

\* No import with the example consumer is under way.
ExampleIdle ==
    /\ db = EmptyMap
    /\ db_before = EmptyMap
    /\ op_import_type = "FULL_SYNC"
    /\ to_update = EmptyMap
    /\ to_remove = {}

\* An import begins: the map holds anything, record_handler's locals are new.
ExampleStart ==
    /\ db \in Maps
    /\ db_before = db
    /\ op_import_type \in ImportType
    /\ to_update = EmptyMap
    /\ to_remove = {}

\* `del db[fid]` for every fid of to_remove raises KeyError at a key that is
\* not in db.
del_raises(d, S) == ~(S \subseteq DOMAIN d)

\* How record_handler ends a step in which its pull got `x`: it yields after a
\* record; after the loop it updates db and returns, unless a del raises; it
\* has no except clause, so what the pull raises propagates.
record_handler_ending(x) ==
    IF x.kind = "val" THEN "suspend"
    ELSE IF x.kind = "exc" THEN "propagate"
    ELSE IF op_import_type # "FULL_SYNC" /\ del_raises(db, to_remove) THEN "raise_own"
    ELSE "return"

\* The body of record_handler's loop for one record.
record_handler_body(r) ==
    /\ IF is_deleted(r)
         THEN /\ to_remove' = to_remove \cup {get_f_id(r)}
              /\ UNCHANGED to_update
         ELSE /\ to_update' = dict_update(to_update, [k \in {get_f_id(r)} |-> r.data])
              /\ UNCHANGED to_remove
    /\ UNCHANGED <<db, db_before, op_import_type>>

\* record_handler after its loop.  When a del raises, the keys deleted before
\* it are gone (a set is iterated in no particular order).
record_handler_after_loop ==
    /\ IF op_import_type = "FULL_SYNC"
         THEN db' = dict_update(EmptyMap, to_update)
       ELSE IF del_raises(db, to_remove)
         THEN \E S \in SUBSET (to_remove \cap DOMAIN db) : db' = dict_without(db, S)
       ELSE db' = dict_update(dict_without(db, to_remove), to_update)
    /\ UNCHANGED <<db_before, op_import_type, to_update, to_remove>>

\* A handler method of the adapter is called and record_handler is the
\* consumer: when the controller drives it, it pulls once and does what its
\* code says with what the pull got.
DrivesRecordHandler ==
    IF ncalls' = ncalls \/ ~last'.invoked THEN UNCHANGED evars
    ELSE /\ last'.pulls = 1
         /\ last'.ending = record_handler_ending(last'.received[1])
         /\ IF last'.received[1].kind = "val"
              THEN record_handler_body(last'.received[1].x)
            ELSE IF last'.received[1].kind = "end" THEN record_handler_after_loop
            ELSE UNCHANGED evars

\* perform_import has called no method on the handler after which it calls
\* none: no on_import_failed, no on_import_finished.
StillDelivering == acall.op \in {"none", "on_record_available"}

\* perform_import gives the handler a record (no handler has raised so far).
ExampleRecord(r) ==
    /\ StillDelivering
    /\ acall.out \in {"-", "ok"}
    /\ OnRecordAvailable("own", r)
    /\ DrivesRecordHandler

\* perform_import's failed round.
ExampleFailed ==
    /\ StillDelivering
    /\ OnImportFailed("own")
    /\ DrivesRecordHandler

\* perform_import's finished round (no handler has raised so far).
ExampleFinished ==
    /\ StillDelivering
    /\ acall.out \in {"-", "ok"}
    /\ OnImportFinished("own")
    /\ DrivesRecordHandler

\* The calls one run of perform_import makes on the adapter of record_handler.
ExampleNext ==
    \/ \E r \in ExampleRecords : ExampleRecord(r) /\ UNCHANGED <<vars, tvars>>
    \/ ExampleFailed /\ UNCHANGED <<vars, tvars>>
    \/ ExampleFinished /\ UNCHANGED <<vars, tvars>>

\* ------------------------------------------------------------ two runs

\* Two runs of perform_import, each with its own ImportOperation.
Runs == {"A", "B"}

\* The handlers: for each run the GeneratorImportOperationHandler that the
\* run's receiver builds for the run's operation.
Adapters == {"gA", "gB"}

\* The consumers are loops over the feeder: one pull in each step.
LoopScripts == {script \in Scripts : script.pulls = 1}

\* OneOffImportOperationHandler.__init__: self.operation = operation
operation_of(g) == IF g = "gA" THEN "A" ELSE "B"

\* The record of each run's source.
RecordOf(o) == IF o = "A" THEN "ra" ELSE "rb"

\* Where a run is: the part of perform_import and the index in the handler
\* loop.
At(at, i) == [at |-> at, i |-> i]

NoStep == [run |-> "-", kind |-> "none", h |-> "-", rec |-> "-", out |-> "-"]

\* No run is under way; each adapter has the controller and the flag that
\* GeneratorImportOperationHandler.__init__ gives it.
TwoIdle ==
    /\ op_handlers = [o \in Runs |-> <<>>]
    /\ op_pc = [o \in Runs |-> At("idle", 1)]
    /\ ctls = [g \in Adapters |-> NewController]
    /\ flags = [g \in Adapters |-> FALSE]
    /\ tstep = NoStep

\* The controller method that a method of GeneratorImportOperationHandler
\* calls: its result for controller c.
controller_method(method, c, v, script, gs) ==
    CASE method = "on_record_available" -> transmit_value(c, v, script, gs)
      [] method = "on_import_failed" -> fail(c, AdapterErr, script, gs)
      [] method = "on_import_finished" -> end(c, script, gs)

\* A method of a GeneratorImportOperationHandler as a function of the
\* handler's state, r being the result of the controller method should it be
\* called: the controller and flag it leaves, what it raises, and whether the
\* consumer can follow the script.
adapter_method(method, operation, c, flag, r, script) ==
    IF validate_operation_is_ours(operation) # "ok"
      THEN [c |-> c, flag |-> flag, out |-> validate_operation_is_ours(operation),
            follows |-> TRUE]
    ELSE IF method = "on_import_failed" /\ skips_failure(flag)
      THEN [c |-> c, flag |-> flag, out |-> "ok", follows |-> TRUE]
    ELSE IF method # "on_import_failed" /\ flag
      THEN [c |-> c, flag |-> flag, out |-> AssertionFailed, follows |-> TRUE]
    ELSE [c |-> r.c,
          flag |-> IF method = "on_import_failed" THEN flag ELSE r.out # "ok",
          out |-> r.out,
          follows |-> CanFollow(r, script)]

\* Run o calls `method` of handler h, with o's operation and record v.
TwoCall(o, h, method, v) ==
    \E script \in LoopScripts :
      \E r \in {controller_method(method, ctls[h], v, script, genstop)} :
        \E res \in {adapter_method(method, IF operation_of(h) = o THEN "own" ELSE "other",
                                   ctls[h], flags[h], r, script)} :
           /\ res.follows
           /\ ctls' = [ctls EXCEPT ![h] = res.c]
           /\ flags' = [flags EXCEPT ![h] = res.flag]
           /\ tstep' = [run |-> o, kind |-> method, h |-> h, rec |-> v, out |-> res.out]

\* A step of run o that calls no handler.
TwoStep(o, kind, h) ==
    /\ tstep' = [run |-> o, kind |-> kind, h |-> h, rec |-> "-", out |-> "-"]
    /\ UNCHANGED <<ctls, flags>>

\* perform_import: operation = ImportOperation(...), whose __init__ sets
\* self._handlers = []; then import_started is sent.
TwoBegin(o) ==
    /\ op_pc[o].at = "idle"
    /\ op_pc' = [op_pc EXCEPT ![o] = At("started", 1)]
    /\ op_handlers' = [op_handlers EXCEPT ![o] = <<>>]
    /\ TwoStep(o, "begin", "-")

\* A receiver of run o's import_started calls operation.attach_handler(h);
\* an adapter exists once the run it was built for has begun.
TwoAttach(o, h) ==
    /\ op_pc[o].at = "started"
    /\ op_pc[operation_of(h)].at # "idle"
    /\ op_handlers' = [op_handlers EXCEPT ![o] = attach_handler(@, h)]
    /\ TwoStep(o, "attach", h)
    /\ UNCHANGED op_pc

\* A receiver of run o's import_started calls operation.detach_handler(h).
TwoDetach(o, h) ==
    /\ op_pc[o].at = "started"
    /\ op_handlers' = [op_handlers EXCEPT ![o] = detach_handler(@, h)]
    /\ TwoStep(o, "detach", h)
    /\ UNCHANGED op_pc

\* send_robust returned with no error: the source gives run o its record.
TwoSendDone(o) ==
    /\ op_pc[o].at = "started"
    /\ op_pc' = [op_pc EXCEPT ![o] = At("deliver", 1)]
    /\ TwoStep(o, "pull", "-")
    /\ UNCHANGED op_handlers

\* for h in operation.handlers: h.on_record_available(operation, record)
TwoDeliver(o) ==
    /\ op_pc[o].at = "deliver"
    /\ op_pc[o].i <= Len(op_handlers[o])
    /\ TwoCall(o, op_handlers[o][op_pc[o].i], "on_record_available", RecordOf(o))
    /\ op_pc' = [op_pc EXCEPT ![o] = IF delivery_aborts(tstep'.out # "ok")
                                       THEN At("failed", 1)
                                       ELSE At("deliver", next_handler(@.i))]
    /\ UNCHANGED op_handlers

\* The record was given to every handler and the source is exhausted.
TwoDeliverDone(o) ==
    /\ op_pc[o].at = "deliver"
    /\ op_pc[o].i > Len(op_handlers[o])
    /\ op_pc' = [op_pc EXCEPT ![o] = At("finished", 1)]
    /\ TwoStep(o, "pull", "-")
    /\ UNCHANGED op_handlers

\* One iteration of _notify_handler_robust in run o.
TwoNotify(o) ==
    /\ op_pc[o].at \in {"failed", "finished"}
    /\ op_pc[o].i <= Len(op_handlers[o])
    /\ TwoCall(o, op_handlers[o][op_pc[o].i],
               IF op_pc[o].at = "failed" THEN "on_import_failed" ELSE "on_import_finished",
               "-")
    /\ op_pc' = [op_pc EXCEPT ![o] = At(@.at, robust_next(@.i, tstep'.out # "ok"))]
    /\ UNCHANGED op_handlers

\* Run o's perform_import returns or raises.
TwoOver(o) ==
    /\ op_pc[o].at \in {"failed", "finished"}
    /\ op_pc[o].i > Len(op_handlers[o])
    /\ op_pc' = [op_pc EXCEPT ![o] = At("over", 1)]
    /\ TwoStep(o, "over", "-")
    /\ UNCHANGED op_handlers

\* The steps of the two runs, in any order.
TwoNext ==
    \/ \E o \in Runs : TwoBegin(o) /\ UNCHANGED <<vars, cvars, avars, evars>>
    \/ \E o \in Runs, h \in Adapters : TwoAttach(o, h) /\ UNCHANGED <<vars, cvars, avars, evars>>
    \/ \E o \in Runs, h \in Adapters : TwoDetach(o, h) /\ UNCHANGED <<vars, cvars, avars, evars>>
    \/ \E o \in Runs : TwoSendDone(o) /\ UNCHANGED <<vars, cvars, avars, evars>>
    \/ \E o \in Runs : TwoDeliver(o) /\ UNCHANGED <<vars, cvars, avars, evars>>
    \/ \E o \in Runs : TwoDeliverDone(o) /\ UNCHANGED <<vars, cvars, avars, evars>>
    \/ \E o \in Runs : TwoNotify(o) /\ UNCHANGED <<vars, cvars, avars, evars>>
    \/ \E o \in Runs : TwoOver(o) /\ UNCHANGED <<vars, cvars, avars, evars>>

\* ---------------------------------------------------------- specifications

allvars == <<vars, cvars, avars, evars, tvars>>

\* No perform_import run is under way.
ImportIdle ==
    /\ pc = "idle"
    /\ import_type = "FULL_SYNC"
    /\ records = <<>>
    /\ nreceivers = 0
    /\ handlers = <<>>
    /\ ridx = 1
    /\ ops = 0
    /\ responses = <<>>
    /\ pos = 1
    /\ record = "-"
    /\ hidx = 1
    /\ errors = <<>>
    /\ err = NoExc
    /\ exc_type = "-"
    /\ exc_cause = NoExc
    /\ failRounds = 0
    /\ trace = <<>>

\* One run of perform_import (plain handlers: no controller is driven).
ImportInit == Init /\ CtrlInit /\ genstop = FALSE /\ AdapterInit /\ ExampleIdle /\ TwoIdle

Spec == ImportInit /\ [][Next]_allvars

\* Every call made into foreign code returns or raises, so perform_import
\* always takes its next step.
FairSpec == Spec /\ WF_allvars(Next)

\* Calls on one controller, under either interpreter behaviour.
CtrlStart ==
    /\ ImportIdle
    /\ genstop \in BOOLEAN
    /\ \E binder \in Binders : Constructed(binder)
    /\ AdapterInit
    /\ ExampleIdle
    /\ TwoIdle

CtrlSpec == CtrlStart /\ [][CtrlNext]_allvars

\* Calls on one IterationState, from IterationState().
StateStart == ImportIdle /\ CtrlInit /\ genstop = FALSE /\ AdapterInit /\ ExampleIdle /\ TwoIdle

StateSpec == StateStart /\ [][StateNext]_allvars

\* Calls on one handler bound to an operation, under either interpreter
\* behaviour.
AdapterStart == ImportIdle /\ CtrlInit /\ genstop \in BOOLEAN /\ AdapterInit /\ ExampleIdle /\ TwoIdle

AdapterSpec == AdapterStart /\ [][AdapterNext]_allvars

\* One run of perform_import in which handler GenHandler is an adapter built
\* for this operation, under either interpreter behaviour.
AdaptedStart == Init /\ CtrlInit /\ genstop \in BOOLEAN /\ AdapterInit /\ ExampleIdle /\ TwoIdle

AdaptedSpec == AdaptedStart /\ [][AdaptedNext]_allvars

\* One import handled by the example consumer, under either interpreter
\* behaviour.
ExampleInit ==
    ImportIdle /\ CtrlInit /\ genstop \in BOOLEAN /\ AdapterInit /\ ExampleStart /\ TwoIdle

ExampleSpec == ExampleInit /\ [][ExampleNext]_allvars

\* Two runs of perform_import whose steps interleave.
TwoInit ==
    ImportIdle /\ CtrlInit /\ genstop = FALSE /\ AdapterInit /\ ExampleIdle /\ TwoIdle

TwoSpec == TwoInit /\ [][TwoNext]_allvars


\* ------------------------------------------------------ reading the trace

\* The handlers attached to the operation.
HandlerSet == {handlers[i] : i \in DOMAIN handlers}

\* How many times handler h received callback ev.
Count(ev, h) == Cardinality({i \in DOMAIN trace : trace[i].ev = ev /\ trace[i].h = h})

\* The handlers that received callback ev, in the order of the calls.
Receivers(ev) ==
    LET s == SelectSeq(trace, LAMBDA e : e.ev = ev)
    IN [i \in DOMAIN s |-> s[i].h]

\* The records handler h was offered, in the order of the calls.
RecordsGiven(h) ==
    LET s == SelectSeq(trace, LAMBDA e : e.ev = "record" /\ e.h = h)
    IN [i \in DOMAIN s |-> s[i].r]

\* The calls that are faults of the delivery: a receiver, a pull or an
\* on_record_available call that raised (a pull "raises" too when the item
\* is rejected as not an ImportRecord).
Faults == {i \in DOMAIN trace : trace[i].raised /\ trace[i].ev \in {"started", "pull", "record"}}
FirstFault == CHOOSE i \in Faults : \A j \in Faults : i <= j

\* The exception call i raised.
ExcOf(i) ==
    Exc(CASE trace[i].ev = "started" -> "receiver"
          [] trace[i].ev = "pull" -> IF trace[i].r = SourceRaises THEN "source" ELSE "ValueError"
          [] OTHER -> "handler", i)

\* The source was pulled to its end.
Exhausted == \E i \in DOMAIN trace : trace[i].ev = "pull" /\ trace[i].r = "StopIteration"

\* iter(records) raised.
IterFailed == pc = "raised" /\ exc_type = "TypeError"

\* ------------------------------------------------------------------ claims

\* C1: in every state of every run, no handler has received both
\* on_import_finished and on_import_failed, and none has received either of
\* them more than once.
C1_FinishedFailedExclusive ==
    \A h \in Handlers : Count("finished", h) + Count("failed", h) <= 1

\* A run that ended after a handler raised from on_import_finished, with two
\* handlers attached.
C1_Witness ==
    /\ Terminated
    /\ Len(handlers) = 2
    /\ \E i \in DOMAIN trace : trace[i].ev = "finished" /\ trace[i].raised

C3_SuccessfulRun ==
    (/\ Terminated
     /\ import_type \in ImportType
     /\ ~IterFailed
     /\ \A i \in DOMAIN records : records[i] \in Records
     /\ \A i \in DOMAIN trace : ~trace[i].raised)
    => /\ pc = "returned"
       /\ exc_type = "-"
       /\ \A h \in HandlerSet :
            /\ Count("finished", h) = 1
            /\ Count("failed", h) = 0
            /\ RecordsGiven(h) = records

\* A successful run of two different records to two handlers.
C3_Witness ==
    /\ pc = "returned"
    /\ Len(handlers) = 2
    /\ Len(records) = 2
    /\ records[1] # records[2]

\* The last item pulled from the source (pos is the index of the next one),
\* and the call that pulled it.
LastPulled == pos - 1
LastPull ==
    CHOOSE i \in DOMAIN trace :
        trace[i].ev = "pull" /\ \A j \in DOMAIN trace : j > i => trace[j].ev # "pull"

\* C4: when the run ended after pulling an item that raises or is not an
\* ImportRecord, that item was offered to no handler, every handler was
\* offered exactly the records yielded before it, received on_import_failed
\* once and on_import_finished never, and perform_import raised
\* ImportOperationError caused by the exception of that pull.
C4_SourceFailure ==
    (/\ Terminated
     /\ LastPulled >= 1
     /\ records[LastPulled] \notin Records)
    => /\ \E i \in DOMAIN trace : trace[i].ev = "pull"
       /\ trace[LastPull].r = records[LastPulled]
       /\ \A i \in DOMAIN trace :
            trace[i].ev = "record" => i < LastPull /\ trace[i].r # records[LastPulled]
       /\ \A h \in HandlerSet :
            /\ RecordsGiven(h) = SubSeq(records, 1, LastPulled - 1)
            /\ Count("failed", h) = 1
            /\ Count("finished", h) = 0
       /\ pc = "raised"
       /\ exc_type = "ImportOperationError"
       /\ exc_cause = Exc(IF records[LastPulled] = SourceRaises THEN "source" ELSE "ValueError",
                          LastPull)

\* A run that ended on a second item that is not an ImportRecord, with two
\* handlers attached.
C4_Witness ==
    /\ Terminated
    /\ Len(handlers) = 2
    /\ LastPulled = 2
    /\ records[1] \in Records
    /\ records[2] = NotARecord

\* C5: when the run ended after a handler raised from on_record_available,
\* no on_record_available call followed that one, every attached handler
\* received on_import_failed once and on_import_finished never, and
\* perform_import raised ImportOperationError caused by that exception.
C5_HandlerFailure ==
    \A i \in DOMAIN trace :
        (Terminated /\ trace[i].ev = "record" /\ trace[i].raised)
        => /\ \A j \in DOMAIN trace : j > i => trace[j].ev # "record"
           /\ \A h \in HandlerSet : Count("failed", h) = 1 /\ Count("finished", h) = 0
           /\ pc = "raised"
           /\ exc_type = "ImportOperationError"
           /\ exc_cause = Exc("handler", i)

\* A run that ended after the first of two handlers raised from
\* on_record_available.
C5_Witness ==
    /\ Terminated
    /\ Len(handlers) = 2
    /\ \E i \in DOMAIN trace :
         trace[i].ev = "record" /\ trace[i].raised /\ trace[i].h = handlers[1]

\* C6: when the run ended after a receiver of import_started raised, every
\* receiver was called, every handler attached at the end of the broadcast
\* received on_import_failed once, and perform_import raised
\* ImportOperationError caused by the exception of the first receiver that
\* raised.
C6_ReceiverFailure ==
    (Terminated /\ \E i \in DOMAIN trace : trace[i].ev = "started" /\ trace[i].raised)
    => /\ Cardinality({i \in DOMAIN trace : trace[i].ev = "started"}) = nreceivers
       /\ \A h \in HandlerSet : Count("failed", h) = 1
       /\ pc = "raised"
       /\ exc_type = "ImportOperationError"
       /\ exc_cause = Exc("receiver", FirstFault)

\* A run that ended after both of two receivers raised, the second after
\* attaching a handler.
C6_Witness ==
    /\ Terminated
    /\ nreceivers = 2
    /\ Len(handlers) >= 1
    /\ trace[1].ev = "started" /\ trace[1].raised
    /\ trace[2].ev = "started" /\ trace[2].raised

\* C7: once a receiver, a pull or an on_record_available call has raised, no
\* item is pulled and no on_record_available call is made after the first
\* such fault, _notify_import_failed is never entered twice, and when the
\* run has ended it was entered once and each handler got on_import_failed
\* once.
C7_FailFast ==
    /\ failRounds <= 1
    /\ Faults # {} =>
         /\ \A j \in DOMAIN trace : j > FirstFault => trace[j].ev \notin {"pull", "record"}
         /\ Cardinality(Faults \ {i \in DOMAIN trace : trace[i].ev = "started"}) <= 1
         /\ Terminated => /\ failRounds = 1
                          /\ \A h \in HandlerSet : Count("failed", h) = 1

\* A run that ended after the first of two handlers raised on the first of
\* two records.
C7_Witness ==
    /\ Terminated
    /\ Len(handlers) = 2
    /\ Len(records) = 2
    /\ \E i \in DOMAIN trace :
         /\ trace[i].ev = "record" /\ trace[i].raised
         /\ trace[i].h = handlers[1] /\ LastPulled = 1

\* C8: when the run ended after a failed round, on_import_failed was called
\* on every attached handler, once each, in attachment order, whichever of
\* them raised, and perform_import raised ImportOperationError caused by the
\* original fault.
C8_FailedRoundRobust ==
    (Terminated /\ failRounds >= 1)
    => /\ Receivers("failed") = handlers
       /\ pc = "raised"
       /\ exc_type = "ImportOperationError"
       /\ Faults # {}
       /\ exc_cause = ExcOf(FirstFault)

\* A run that ended after a failed round in which the first of two handlers
\* raised and the second did not.
C8_Witness ==
    /\ Terminated
    /\ Len(handlers) = 2
    /\ \E i \in DOMAIN trace :
         /\ trace[i].ev = "failed" /\ trace[i].raised /\ trace[i].h = handlers[1]
         /\ trace[i+1].ev = "failed" /\ ~trace[i+1].raised

\* C9: when the run ended after the source was exhausted, on_import_finished
\* was called on every attached handler, once each, in attachment order,
\* whichever of them raised, no on_import_failed was sent, and if one of them
\* raised perform_import raised ImportOperationError, else it returned.
C9_FinishedRoundRobust ==
    (Terminated /\ Exhausted)
    => /\ Receivers("finished") = handlers
       /\ Receivers("failed") = <<>>
       /\ IF \E i \in DOMAIN trace : trace[i].ev = "finished" /\ trace[i].raised
            THEN pc = "raised" /\ exc_type = "ImportOperationError"
            ELSE pc = "returned"

\* A run that ended after a finished round in which the first of two
\* handlers raised and the second did not.
C9_Witness ==
    /\ Terminated
    /\ Len(handlers) = 2
    /\ \E i \in DOMAIN trace :
         /\ trace[i].ev = "finished" /\ trace[i].raised /\ trace[i].h = handlers[1]
         /\ trace[i+1].ev = "finished" /\ ~trace[i+1].raised

\* C10: whenever a handler has received on_import_finished, the source had
\* been pulled to its end before that call, every attached handler had been
\* offered every record of the source, and no pull and no
\* on_record_available call was made after it.
C10_FinishedAfterRecords ==
    \A i \in DOMAIN trace :
        trace[i].ev = "finished"
        => /\ \E k \in 1..(i-1) : trace[k].ev = "pull" /\ trace[k].r = "StopIteration"
           /\ \A h \in HandlerSet : RecordsGiven(h) = records
           /\ \A j \in DOMAIN trace : j > i => trace[j].ev \notin {"pull", "record"}

\* A finished round under way after two records were delivered to two
\* handlers.
C10_Witness ==
    /\ Len(handlers) = 2
    /\ Len(records) = 2
    /\ Count("finished", handlers[1]) = 1
    /\ Count("record", handlers[2]) = 2

\* The calls made between call i (a pull) and the next pull, or the end of
\* the trace: the indices after i up to the next pull.
AfterPull(i) ==
    {j \in DOMAIN trace : j > i /\ \A k \in (i+1)..j : trace[k].ev # "pull"}

\* The handlers offered the record pulled by call i, in the order of the calls.
OfferedAfter(i) ==
    LET s == SelectSeq([k \in 1..Len(trace) |-> [e |-> trace[k], at |-> k]],
                       LAMBDA x : x.at \in AfterPull(i) /\ x.e.ev = "record")
    IN [k \in DOMAIN s |-> s[k].e.h]

\* C11: the record of each pull is offered to the handlers in attachment
\* order, it is the only record offered until the next pull, and when the
\* next pull is made every attached handler has been offered it.
C11_OneRecordAtATime ==
    \A i \in DOMAIN trace :
        (trace[i].ev = "pull" /\ ~trace[i].raised /\ trace[i].r # "StopIteration")
        => /\ \A j \in AfterPull(i) : trace[j].ev = "record" => trace[j].r = trace[i].r
           /\ Len(OfferedAfter(i)) <= Len(handlers)
           /\ OfferedAfter(i) = SubSeq(handlers, 1, Len(OfferedAfter(i)))
           /\ (\E j \in DOMAIN trace : j > i /\ trace[j].ev = "pull")
                => OfferedAfter(i) = handlers

\* Two different records were pulled and the second is being delivered to two
\* handlers.
C11_Witness ==
    /\ Len(handlers) = 2
    /\ Len(records) = 2
    /\ records[1] # records[2]
    /\ Count("record", handlers[1]) = 2
    /\ Count("record", handlers[2]) = 2

\* C12: a run given an import_type that is not an ImportType member raises
\* ValueError and calls no receiver, pulls nothing from the source, calls no
\* handler and attaches none.
C12_InvalidImportType ==
    import_type \notin ImportType
    => /\ trace = <<>>
       /\ handlers = <<>>
       /\ pos = 1
       /\ failRounds = 0
       /\ Terminated => pc = "raised" /\ exc_type = "ValueError"

\* A run that was refused although receivers were connected and the source
\* had records.
C12_Witness ==
    /\ import_type \notin ImportType
    /\ Terminated
    /\ nreceivers = 2
    /\ Len(records) = 2

\* C13: every ImportOperationError perform_import raises has a cause.
C13_ErrorCarriesCause ==
    (pc = "raised" /\ exc_type = "ImportOperationError") => exc_cause # NoExc

\* ------------------------------------------ claims: inverted iteration

\* The last call was made on a controller whose consumer had, in every call
\* before, been sent a value, pulled the feeder once and suspended.
InSync == good /\ last.op # "none"

ReceivedEnd == [kind |-> "end", x |-> "-"]
ReceivedExc(e) == [kind |-> "exc", x |-> e]
ReceivedVal(v) == [kind |-> "val", x |-> v]

\* C14: with a consumer that pulls the feeder once per step and then
\* suspends, a sequence of transmit_value calls hands the consumer exactly
\* the values sent, in order, one per call, and each call returns with no
\* value in flight: the iteration state is AWAITING_VAL again.
C14_Rendezvous ==
    (InSync /\ last.op = "transmit_value" /\ last.pulls = 1 /\ last.ending = "suspend")
    => /\ last.out = "ok"
       /\ last.invoked
       /\ last.received = <<ReceivedVal(last.arg)>>
       /\ got = sent
       /\ Len(got) = ncalls
       /\ ctl.state = "AWAITING_VAL"
       /\ ctl.val = "None"
       /\ ctl.yield_count = ctl.step_count

C14_Witness ==
    /\ InSync /\ last.op = "transmit_value" /\ last.pulls = 1 /\ last.ending = "suspend"
    /\ ncalls = MaxCalls
    /\ got[1] # got[2]

\* C15: with a consumer that iterates the feeder, end() ends the consumer's
\* loop normally (the pull finds the feeder over, no error is raised in the
\* consumer), and when the consumer then returns, end() returns normally;
\* also when end() is the first call.
C15_EndFinishesLoop ==
    (good /\ last.op = "end" /\ last.pulls = 1)
    => /\ last.invoked
       /\ last.received = <<ReceivedEnd>>
       /\ (last.ending = "return" => last.out = "ok")

\* C16: fail(err) makes the consumer's pending pull raise err, and no value
\* is delivered; if the consumer handles err and returns, fail() returns
\* normally; if it lets err propagate, fail() raises err.
C16_FailRaisesInConsumer ==
    (InSync /\ last.op = "fail" /\ last.pulls >= 1)
    => /\ last.invoked
       /\ last.received[1] = ReceivedExc(last.arg)
       /\ ValuesIn(last.received) = <<>>
       /\ (last.ending = "return" => last.out = "ok")
       /\ (last.ending = "propagate" => last.out = last.arg)

C16_Witness ==
    /\ InSync /\ last.op = "fail" /\ last.pulls = 1 /\ last.ending = "propagate"
    /\ ncalls = 2
    /\ last.out = InjectedErr

\* C17: when the consumer raises an exception of its own while it is driven,
\* whether or not it pulled the feeder in that step, the call raises that
\* exception.
C17_OwnErrorPropagates ==
    (InSync /\ last.invoked /\ last.ending = "raise_own") => last.out = OwnError

\* C18: once the consumer has raised, every further call raises the
\* "failed iterator" InvertedIterationError and does not run the consumer.
C18_DeadRejectsCalls ==
    (died_before /\ last.op # "none") => (last.out = FailedIterator /\ ~last.invoked)

\* C19: is_active is false once end() or fail() has been delivered and
\* processed, or the consumer has died.
C19_InactiveAfterEndOrDeath ==
    (delivered \/ died) => ~is_active(ctl)

\* C20: when the consumer suspends without pulling the feeder in a driving
\* step, the driving call (transmit_value, fail or end) raises the "didn't
\* advance its iterator" InvertedIterationError.
C20_NoAdvance ==
    (last.invoked /\ last.pulls = 0 /\ last.ending = "suspend") => last.out = NoAdvance

C20_Witness ==
    /\ last.invoked /\ last.pulls = 0 /\ last.ending = "suspend"
    /\ last.op = "end"
    /\ ncalls = 2
    /\ last.out = NoAdvance

\* C21 (as stated): when the consumer pulls the feeder a second time in a
\* transmit_value step without suspending, transmit_value raises the "access
\* a second value without yielding" InvertedIterationError, and the consumer
\* is handed no second value in the step.
C21_SecondPullRaises ==
    (InSync /\ last.op = "transmit_value" /\ last.pulls >= 2)
    => /\ last.out = SecondValue
       /\ Len(ValuesIn(last.received)) <= 1

\* C21 (amended): the second pull raises the "second value" error inside the
\* consumer and hands it no second value; transmit_value raises that error,
\* unless the consumer catches it and returns, when transmit_value raises the
\* "unexpectedly raised StopIteration" InvertedIterationError.
C21_SecondPullRaisesUnlessReturn ==
    (InSync /\ last.op = "transmit_value" /\ last.pulls >= 2)
    => /\ last.invoked
       /\ last.received[1] = ReceivedVal(last.arg)
       /\ last.received[2] = ReceivedExc(SecondValue)
       /\ ValuesIn(last.received) = <<last.arg>>
       /\ last.out = (IF last.ending = "return" THEN UnexpectedStop ELSE SecondValue)

C21_Witness ==
    /\ InSync /\ last.op = "transmit_value" /\ last.pulls = 2
    /\ last.ending = "propagate"
    /\ last.out = SecondValue
    /\ ncalls = 2

\* C22: when bind_consumer consumes the feeder eagerly inside the
\* constructor, the constructor raises the "access a second value without
\* yielding" InvertedIterationError.
C22_EagerConstructionFails ==
    construction.binder = "eager" => construction.out = SecondValue

\* C23: when the consumer returns during a transmit_value step, or during a
\* fail step in which it did not pull the injected error, the call raises the
\* "unexpectedly raised StopIteration" InvertedIterationError.
C23_EarlyReturn ==
    (/\ last.invoked
     /\ last.ending = "return"
     /\ (last.op = "transmit_value" \/ (last.op = "fail" /\ last.pulls = 0)))
    => last.out = UnexpectedStop

C23_Witness ==
    /\ last.invoked /\ last.ending = "return"
    /\ last.op = "fail" /\ last.pulls = 0
    /\ last.out = UnexpectedStop
    /\ ncalls = 2

\* ---------------------------------------------- claims: IterationState

\* A call was made on the iteration state in this step.
StateCall == ncalls' = ncalls + 1

Registers == {"register_next_val", "register_error", "register_end"}

\* C24: a register_next_val, register_error or register_end call in a state
\* other than AWAITING_VAL, and a __next__ call in AWAITING_VAL, raises the
\* protocol error (a RuntimeError) and leaves state and payload as they were.
C24_InvalidCallsRejected ==
    [][(/\ StateCall
        /\ \/ (last'.op \in Registers /\ ctl.state # "AWAITING_VAL")
           \/ (last'.op = "__next__" /\ ctl.state = "AWAITING_VAL"))
       => /\ last'.out = (IF last'.op = "__next__" THEN NextBeforeVal ELSE UnexpectedState)
          /\ ctl'.state = ctl.state
          /\ ctl'.val = ctl.val]_<<vars, cvars>>

C24_Witness ==
    /\ last.op = "register_error"
    /\ last.out = UnexpectedState
    /\ ctl.state = "HAS_VAL"

\* C25: a registered value is what the following __next__ returns, which
\* leaves AWAITING_VAL with an empty slot; the values returned are the values
\* registered, in order, each at most once; and the slot holds a payload only
\* in HAS_VAL and AT_ERR.
C25_OneSlot ==
    /\ Len(got) <= Len(sent)
    /\ Len(sent) <= Len(got) + 1
    /\ got = SubSeq(sent, 1, Len(got))
    /\ ctl.state = "HAS_VAL" => (Len(sent) = Len(got) + 1 /\ ctl.val = sent[Len(sent)])
    /\ (last.op = "__next__" /\ last.out = "ok")
       => /\ last.received = <<ReceivedVal(sent[Len(sent)])>>
          /\ Len(got) = Len(sent)
          /\ ctl.state = "AWAITING_VAL"
          /\ ctl.val = "None"
    /\ ctl.val # "None" => ctl.state \in {"HAS_VAL", "AT_ERR"}

C25_Witness ==
    /\ last.op = "__next__" /\ last.out = "ok"
    /\ Len(got) = 2
    /\ got[1] # got[2]

\* C26: the __next__ that follows register_error(e) raises e and moves to
\* AT_END; every __next__ after that raises StopIteration, never e again.
C26_ErrorRaisedOnce ==
    [][(StateCall /\ last'.op = "__next__")
       => /\ ctl.state = "AT_ERR"
             => /\ last'.received = <<ReceivedExc(InjectedErr)>>
                /\ last'.out = InjectedErr
                /\ ctl'.state = "AT_END"
          /\ delivered
             => /\ last'.received = <<[kind |-> "stop", x |-> "-"]>>
                /\ last'.out = "StopIteration"]_<<vars, cvars>>

C26_Witness ==
    /\ delivered
    /\ last.op = "__next__"
    /\ last.out = "StopIteration"
    /\ ncalls = 3

\* C27: from AT_END no call changes the state, __next__ keeps raising
\* StopIteration, and is_at_end holds in AT_END only.
C27_AtEndTerminal ==
    [][/\ (StateCall /\ ctl.state = "AT_END")
          => /\ ctl' = ctl
             /\ last'.op = "__next__" => last'.out = "StopIteration"
             /\ last'.op \in Registers => last'.out = UnexpectedState
       /\ is_at_end(ctl') <=> ctl'.state = "AT_END"]_<<vars, cvars>>

C27_Witness ==
    /\ ctl.state = "AT_END"
    /\ ncalls = MaxStateCalls
    /\ last.op = "register_next_val"
    /\ last.out = UnexpectedState
    /\ ~delivered

\* ------------------------------------------- claims: one-off handlers

\* A handler method was called in this step.
HandlerCall == acall'.n = acall.n + 1

\* Every call made on the controller so far was a transmit_value in which the
\* consumer pulled the feeder once and suspended.
Cooperative ==
    good /\ (last.op = "none" \/
             (last.op = "transmit_value" /\ last.pulls = 1 /\ last.ending = "suspend"))

\* C28: on_import_failed on a generator handler whose consumer died while
\* on_record_available or on_import_finished drove it returns normally and
\* leaves the controller alone: fail() is not called, the consumer not run.
C28_FailedAfterDeathIsNoOp ==
    [][(/\ HandlerCall
        /\ acall'.kind = "generator"
        /\ acall'.op = "on_import_failed"
        /\ acall'.operation = "own"
        /\ died
        /\ last.op \in {"transmit_value", "end"}
        /\ last.out # "ok")
       => /\ acall'.out = "ok"
          /\ cvars' = cvars]_allvars

C28_Witness ==
    /\ acall.kind = "generator" /\ acall.op = "on_import_failed"
    /\ acall.operation = "own" /\ acall.out = "ok"
    /\ error_raised
    /\ died
    /\ last.op = "end" /\ last.out = OwnError

\* C29: on_import_failed on a generator handler whose consumer is alive and
\* waiting at its pull (or has not started) calls fail(): the consumer's pull
\* raises the ImportOperationError, no value or end of the feeder is given
\* to it, and if it handles the error and returns, on_import_failed returns.
C29_FailedRaisesInConsumer ==
    [][(/\ HandlerCall
        /\ acall'.kind = "generator"
        /\ acall'.op = "on_import_failed"
        /\ acall'.operation = "own"
        /\ Cooperative)
       => /\ ncalls' = ncalls + 1
          /\ last'.op = "fail"
          /\ last'.arg = AdapterErr
          /\ last'.invoked
          /\ last'.pulls >= 1
             => /\ last'.received[1] = ReceivedExc(AdapterErr)
                /\ ValuesIn(last'.received) = <<>>
          /\ (last'.pulls = 1 /\ last'.ending = "return") => acall'.out = "ok"
          /\ (last'.pulls = 1 /\ last'.ending = "propagate") => acall'.out = AdapterErr]_allvars

C29_Witness ==
    /\ acall.kind = "generator" /\ acall.op = "on_import_failed"
    /\ acall.operation = "own" /\ acall.out = "ok"
    /\ ncalls = 1
    /\ last.op = "fail"
    /\ last.received = <<ReceivedExc(AdapterErr)>>
    /\ last.ending = "return"

\* C30: each handler method of a one-off handler (the generator handler
\* included) raises the validation ValueError for an operation other than
\* its own, without touching the controller, and does not raise it for its own.
C30_OwnOperationOnly ==
    [][HandlerCall
       => /\ acall'.operation # "own"
             => /\ acall'.out = ValueErr
                /\ cvars' = cvars
                /\ error_raised' = error_raised
          /\ acall'.operation = "own" => acall'.out # ValueErr
          /\ (acall'.operation = "own" /\ acall'.kind = "oneoff") => acall'.out = "ok"]_allvars

C30_Witness ==
    /\ acall.kind = "generator" /\ acall.op = "on_import_finished"
    /\ acall.operation = "other" /\ acall.out = ValueErr
    /\ ncalls = 1
    /\ ~error_raised

\* --------------------------------- claims: inverted iteration, continued

\* A call was made on the controller in this step.
CtrlCall == ncalls' = ncalls + 1

C37_EndedRejectsCalls ==
    [][(CtrlCall /\ ~is_active(ctl))
       => /\ last'.out = UnexpectedState
          /\ ~last'.invoked
          /\ ctl' = ctl]_allvars

C37_Witness ==
    /\ ~is_active(ctl)
    /\ delivered
    /\ last.op = "transmit_value"
    /\ last.out = UnexpectedState
    /\ ncalls = 3

\* C38: when the consumer catches the error injected by fail(err) and keeps
\* going (suspends again, or pulls the feeder again), fail() raises an
\* InvertedIterationError.
C38_FailThenContinue ==
    (/\ InSync
     /\ last.op = "fail"
     /\ last.pulls >= 1
     /\ last.ending = "suspend")
    => last.out \in InvertedIterationErrors

\* ------------------------------------------ claims: perform_import, continued

\* The handlers in a list, and a list without the handler h.
InList(hs) == {hs[i] : i \in DOMAIN hs}
Without(hs, h) == SelectSeq(hs, LAMBDA x : x # h)

\* C32: the handler list holds no handler twice; attaching appends a handler
\* that is not attached and leaves the list alone otherwise; detaching
\* removes an attached handler, keeping the order of the others, and leaves
\* the list alone otherwise; and the list changes in no other way.
C32_HandlerList ==
    /\ [](/\ \A i, j \in DOMAIN handlers : handlers[i] = handlers[j] => i = j
          /\ \A h \in Handlers :
               attach_handler(handlers, h) =
                 (IF h \in InList(handlers) THEN handlers ELSE Append(handlers, h))
          /\ \A h \in Handlers \cup {NotAHandler} :
               detach_handler(handlers, h) =
                 (IF h \in InList(handlers) THEN Without(handlers, h) ELSE handlers))
    /\ [][handlers' # handlers
          => \/ \E h \in Handlers \ InList(handlers) : handlers' = Append(handlers, h)
             \/ \E h \in InList(handlers) : handlers' = Without(handlers, h)]_allvars

C32_Witness ==
    /\ handlers = <<"h2", "h1">>
    /\ ops = MaxOps
    /\ nreceivers = 1

\* C39: once the import type has been validated, perform_import returns the
\* operation or raises ImportOperationError; no other exception escapes it,
\* whatever fails, obtaining the iterator of the records included.
C39_OnlyImportOperationError ==
    (Terminated /\ import_type \in ImportType)
    => (pc = "returned" \/ (pc = "raised" /\ exc_type = "ImportOperationError"))

\* ------------------------------------ claims: one-off handlers, continued

\* C31: constructing the generator handler calls the consumer function (a
\* generator function) once, and its body has not begun when the constructor
\* returns; the first on_record_available, on_import_failed or
\* on_import_finished for the handler's operation begins it, and it never
\* begins again.
C31_ConsumerStartsOnFirstEvent ==
    /\ [](/\ construction = [binder |-> "generator", out |-> "ok"]
          /\ ncalls = 0 => ctl.consumer = "unstarted")
    /\ [][/\ (/\ HandlerCall
              /\ acall'.kind = "generator"
              /\ acall'.operation = "own"
              /\ ctl.consumer = "unstarted")
             => (last'.invoked /\ ncalls' = 1 /\ ctl'.consumer # "unstarted")
          /\ (HandlerCall /\ (acall'.kind # "generator" \/ acall'.operation # "own"))
             => ctl' = ctl
          /\ ctl.consumer # "unstarted" => ctl'.consumer # "unstarted"]_allvars

C31_Witness ==
    /\ acall.n = 2
    /\ acall.kind = "generator" /\ acall.op = "on_import_failed" /\ acall.operation = "own"
    /\ ncalls = 1
    /\ last.invoked
    /\ ctl.consumer = "finished"

\* ----------------------------- claims: perform_import with an adapter

\* C35: in a run of perform_import with an adapter attached, the adapter's
\* assertions never fail: no call of the adapter ends in an AssertionError,
\* on_record_available is never called after the adapter raised an error, and
\* on_import_finished is never called after it raised or after its consumer
\* ended.
C35_AssertionsNeverFail ==
    /\ [](acall.out # AssertionFailed)
    /\ [][(HandlerCall /\ acall'.kind = "generator") =>
            /\ acall'.op = "on_record_available" => ~error_raised
            /\ acall'.op = "on_import_finished" =>
                 (~error_raised /\ ~died /\ ctl.consumer # "finished")]_allvars

\* The adapter raised while a record was delivered, and perform_import then
\* told it of the failure and raised.
C35_Witness ==
    /\ pc = "raised"
    /\ error_raised
    /\ acall.n = 2
    /\ acall.op = "on_import_failed"
    /\ acall.out = "ok"
    /\ GenHandler \in InList(handlers)

\* The consumer is a loop over the feeder: in every step so far it pulled
\* once, and after a record it went on to its next pull unless it raised an
\* exception of its own.
NormalLoop ==
    /\ good
    /\ last.op # "none" =>
          /\ last.pulls = 1
          /\ Len(last.received) = 1
          /\ last.received[1].kind = "val" => last.ending \in {"suspend", "raise_own"}

\* The terminal outcomes of a consumer, read off the last controller call:
\* its loop ended normally, the ImportOperationError of on_import_failed was
\* raised at its pull, or it raised an exception of its own over a record.
LoopFinished == last.op = "end" /\ last.received = <<ReceivedEnd>>
LoopFailed == last.op = "fail" /\ last.received = <<ReceivedExc(AdapterErr)>>
DiedOfOwn ==
    /\ last.op = "transmit_value"
    /\ last.received = <<ReceivedVal(last.arg)>>
    /\ last.ending = "raise_own"

\* C36: when perform_import is over, the consumer of the attached adapter has
\* observed a terminal outcome: its loop ended normally, or the
\* ImportOperationError was raised at its pull, or it died of its own
\* exception.
C36_OneTerminalOutcome ==
    (Terminated /\ GenHandler \in InList(handlers) /\ NormalLoop) =>
        (LoopFinished \/ LoopFailed \/ DiedOfOwn)

\* ------------------------------------------- claims: the example consumer

\* perform_import returned: on_import_finished was called on the adapter and
\* raised nothing.
ImportSucceeded == acall.op = "on_import_finished" /\ acall.out = "ok"

\* The records of the import, in order, are `sent`: those with data and
\* those without, and their keys.
InsertAt == {i \in DOMAIN sent : sent[i].data # None}
DeleteAt == {i \in DOMAIN sent : sent[i].data = None}
InsertKeys == {sent[i].key : i \in InsertAt}
DeleteKeys == {sent[i].key : i \in DeleteAt}
Untouched(k) ==
    /\ k \in DOMAIN db <=> k \in DOMAIN db_before
    /\ k \in DOMAIN db => db[k] = db_before[k]

\* The data of the last insert-record with key k.
LastData(k) ==
    LET I == {i \in InsertAt : sent[i].key = k}
    IN sent[CHOOSE i \in I : \A j \in I : j <= i].data

\* C33 as stated: after a successful FULL_SYNC import the map is exactly the
\* set of the import's non-deleted records; after a successful
\* PARTIAL_UPDATE import every key of a delete-record is absent, every key of
\* an insert-record is set to that record's data, and every other key is as
\* before.
C33_ExampleMaps ==
    ImportSucceeded =>
        IF op_import_type = "FULL_SYNC"
          THEN {<<k, db[k]>> : k \in DOMAIN db} =
                 {<<sent[i].key, sent[i].data>> : i \in InsertAt}
          ELSE /\ \A k \in DeleteKeys : k \notin DOMAIN db
               /\ \A i \in InsertAt : sent[i].key \in DOMAIN db /\ db[sent[i].key] = sent[i].data
               /\ \A k \in Keys \ (DeleteKeys \cup InsertKeys) : Untouched(k)

\* C33, amended: where several records of the import have the same key, the
\* last insert-record gives the key's value, and a key with both a
\* delete-record and an insert-record ends up set.
C33_ExampleMapsLastInsertWins ==
    ImportSucceeded =>
        /\ \A k \in InsertKeys : k \in DOMAIN db /\ db[k] = LastData(k)
        /\ IF op_import_type = "FULL_SYNC"
             THEN DOMAIN db = InsertKeys
             ELSE /\ \A k \in DeleteKeys \ InsertKeys : k \notin DOMAIN db
                  /\ \A k \in Keys \ (DeleteKeys \cup InsertKeys) : Untouched(k)

\* A successful PARTIAL_UPDATE import of a delete-record and an insert-record
\* for the same key, with another key in the map: the key is set, the other
\* key is as before.
C33_Witness ==
    /\ ImportSucceeded
    /\ op_import_type = "PARTIAL_UPDATE"
    /\ sent = <<[key |-> "k1", data |-> None], [key |-> "k1", data |-> "x"]>>
    /\ db_before = [k \in Keys |-> "y"]
    /\ db = [k \in Keys |-> IF k = "k1" THEN "x" ELSE "y"]

\* ------------------------------------------------------- claims: two runs

\* C40: when the steps of two runs of perform_import interleave, a handler is
\* called with a run's operation and record only while it is attached to that
\* run's operation, so a handler attached only to A is never called with B or
\* B's record; and a step of one run (an attach, a detach, a handler call that
\* drives a controller) changes neither the other run's handler list nor the
\* controller, rendezvous state or flag of an adapter built for the other
\* run's operation.
C40_RunsDisjoint ==
    [][/\ tstep'.kind \in HandlerMethods =>
            /\ tstep'.h \in InList(op_handlers[tstep'.run])
            /\ tstep'.rec \in {"-", RecordOf(tstep'.run)}
       /\ \A o \in Runs : tstep'.run # o =>
            /\ op_handlers'[o] = op_handlers[o]
            /\ \A g \in Adapters : operation_of(g) = o =>
                   (ctls'[g] = ctls[g] /\ flags'[g] = flags[g])]_allvars

\* A's adapter is attached to both operations; A's run has driven its
\* consumer over A's record, and B's run has just called it with B's
\* operation and record, which it refused.
C40_Witness ==
    /\ op_handlers["A"] = <<"gA">>
    /\ op_handlers["B"] = <<"gB", "gA">>
    /\ tstep = [run |-> "B", kind |-> "on_record_available", h |-> "gA", rec |-> "rb",
                out |-> ValueErr]
    /\ ctls["gA"].step_count = 1
    /\ ctls["gA"].state = "AWAITING_VAL"
    /\ op_pc["A"].at = "deliver"
    /\ op_pc["B"].at = "failed"

====
